---- MODULE Spec2Model ----
(***************************************************************************)
(* Model of src/_worker.js: a Cloudflare Worker that proxies requests to   *)
(* raw.githubusercontent.com, resolving the credential to attach from the  *)
(* environment (GH_TOKEN, TOKEN, TOKEN_PATH) and the `token` query         *)
(* parameter.                                                              *)
(*                                                                         *)
(* JavaScript strings are modelled as sequences of one-character strings,  *)
(* so that toLowerCase, decodeURIComponent, the regular expressions and    *)
(* the list parser are computed character by character as the code does.   *)
(***************************************************************************)
EXTENDS Naturals, Sequences, FiniteSets

(***************************************************************************)
(* JavaScript values that are not strings.                                 *)
(***************************************************************************)
\* env.X of an unset variable, URLs[0] of an empty array
Undefined == <<"undefined">>
\* url.searchParams.get('token') when the parameter is absent
Null == <<"null">>
\* the value of an expression that threw URIError
URIError == <<"URIError">>

\* JavaScript truthiness of a string-or-undefined-or-null value
Truthy(v) == v # Undefined /\ v # Null /\ v # <<>>

\* a || b
Or(a, b) == IF Truthy(a) THEN a ELSE b

(***************************************************************************)
(* String primitives.                                                      *)
(***************************************************************************)
Upper == <<"A","B","C","D","E","F","G","H","I","J","K","L","M",
           "N","O","P","Q","R","S","T","U","V","W","X","Y","Z">>
Lower == <<"a","b","c","d","e","f","g","h","i","j","k","l","m",
           "n","o","p","q","r","s","t","u","v","w","x","y","z">>

LowerChar(c) ==
    IF \E i \in 1..Len(Upper) : Upper[i] = c
    THEN Lower[CHOOSE i \in 1..Len(Upper) : Upper[i] = c]
    ELSE c

\* String.prototype.toLowerCase
toLowerCase(s) == [i \in 1..Len(s) |-> LowerChar(s[i])]

\* s.startsWith(p, at i) : p occurs in s at position i (1-based)
OccursAt(s, p, i) ==
    /\ i + Len(p) - 1 <= Len(s)
    /\ \A k \in 1..Len(p) : s[i + k - 1] = p[k]

\* String.prototype.startsWith
startsWith(s, p) == OccursAt(s, p, 1)

\* String.prototype.indexOf for a single character, 0 when absent (JS: -1)
indexOf(s, c) ==
    IF \E i \in 1..Len(s) : s[i] = c
    THEN CHOOSE i \in 1..Len(s) : s[i] = c /\ \A k \in 1..(i - 1) : s[k] # c
    ELSE 0

\* s.substring(from) with 1-based positions
From(s, i) == SubSeq(s, i, Len(s))

Whitespace == {" ", "\t", "\n", "\r"}

\* String.prototype.trim
RECURSIVE trimStart(_)
trimStart(s) ==
    IF s # <<>> /\ Head(s) \in Whitespace THEN trimStart(Tail(s)) ELSE s

RECURSIVE trimEnd(_)
trimEnd(s) ==
    IF s # <<>> /\ s[Len(s)] \in Whitespace
    THEN trimEnd(SubSeq(s, 1, Len(s) - 1))
    ELSE s

trim(s) == trimEnd(trimStart(s))

(***************************************************************************)
(* decodeURIComponent.  A "%" must be followed by two hexadecimal digits;  *)
(* the byte they encode is decoded when it is an ASCII character and the   *)
(* call throws URIError otherwise: a lone byte >= 0x80 is not UTF-8, and    *)
(* the multi-byte sequences are outside the pathnames modelled.  A control *)
(* character is written "control".                                         *)
(***************************************************************************)
HexDigits == <<"0","1","2","3","4","5","6","7","8","9",
               "a","b","c","d","e","f">>

IsHex(c) == \E i \in 1..Len(HexDigits) : HexDigits[i] = LowerChar(c)

HexVal(c) == (CHOOSE i \in 1..Len(HexDigits) : HexDigits[i] = LowerChar(c)) - 1

\* the printable ASCII characters, code 32 at position 1 (three of them by name)
Ascii == <<" ","!","dquote","#","$","%","&","'","(", ")", "*", "+",",","-",".","/",
           "0","1","2","3","4","5","6","7","8","9",":",";","<","=",">","?",
           "@","A","B","C","D","E","F","G","H","I","J","K","L","M","N","O",
           "P","Q","R","S","T","U","V","W","X","Y","Z","[","backslash","]","^","_",
           "backtick","a","b","c","d","e","f","g","h","i","j","k","l","m","n","o",
           "p","q","r","s","t","u","v","w","x","y","z","{","|","}","~">>

\* the least element of a non-empty set of positions
First(positions) == CHOOSE i \in positions : \A j \in positions : i <= j

\* decoding from position i: the text up to the next "%" is copied, the escape
\* is decoded, and decoding goes on behind it
RECURSIVE decodeFrom(_, _)
decodeFrom(s, i) ==
    LET escapes == {j \in i..Len(s) : s[j] = "%"}
    IN  IF escapes = {} THEN SubSeq(s, i, Len(s))
        ELSE LET j == First(escapes)
             IN  IF j + 2 > Len(s) \/ ~IsHex(s[j + 1]) \/ ~IsHex(s[j + 2])
                 THEN URIError
                 ELSE LET code == HexVal(s[j + 1]) * 16 + HexVal(s[j + 2])
                          rest == decodeFrom(s, j + 3)
                      IN  IF code > 127 \/ rest = URIError
                          THEN URIError
                          ELSE SubSeq(s, i, j - 1)
                               \o (IF code < 32 \/ code = 127
                                   THEN <<"control">>
                                   ELSE <<Ascii[code - 31]>>)
                               \o rest

decodeURIComponent(s) == decodeFrom(s, 1)

(***************************************************************************)
(* parseEnvList: runs of whitespace and quote characters become a comma,   *)
(* the string is split at commas and the empty items are dropped.          *)
(***************************************************************************)
\* the character class [\s"'`]
QuoteOrSpace == Whitespace \cup {"dquote", "'", "backtick"}

\* envStr.replace(/[\s"'`]+/g, ',')
RECURSIVE replaceSeparators(_, _)
replaceSeparators(s, i) ==
    IF i > Len(s) THEN <<>>
    ELSE IF s[i] \in QuoteOrSpace
    THEN IF i > 1 /\ s[i - 1] \in QuoteOrSpace
         THEN replaceSeparators(s, i + 1)
         ELSE <<",">> \o replaceSeparators(s, i + 1)
    ELSE <<s[i]>> \o replaceSeparators(s, i + 1)

\* s.split(','): the items between commas, empty ones included
RECURSIVE splitComma(_)
splitComma(s) ==
    LET i == indexOf(s, ",")
    IN  IF i = 0 THEN <<s>>
        ELSE <<SubSeq(s, 1, i - 1)>> \o splitComma(From(s, i + 1))

\* .filter(item => item.length > 0)
filterNonEmpty(items) == SelectSeq(items, LAMBDA item : Len(item) > 0)

parseEnvList(envStr) ==
    IF ~Truthy(envStr) THEN <<>>
    ELSE filterNonEmpty(splitComma(replaceSeparators(envStr, 1)))

(***************************************************************************)
(* The target URL.                                                         *)
(***************************************************************************)
\* 'https://raw.githubusercontent.com'
githubHost ==
    <<"h","t","t","p","s",":","/","/","r","a","w",".","g","i","t","h","u","b",
      "u","s","e","r","c","o","n","t","e","n","t",".","c","o","m">>

\* position of the first match of /https:\/\/raw\.githubusercontent\.com/i
\* in s, 0 when there is none
rawUrlRegexIndex(s) ==
    LET low == toLowerCase(s)
        hit(i) == OccursAt(low, githubHost, i)
        hits == {i \in 1..Len(s) : hit(i)}
    IN  IF hits = {} THEN 0 ELSE First(hits)

\* rawUrlRegex.test(s)
rawUrlRegexTest(s) == rawUrlRegexIndex(s) # 0

\* s.split(rawUrlRegex)[1]: what lies between the first match and the next
splitRawUrl1(s) ==
    LET after == From(s, rawUrlRegexIndex(s) + Len(githubHost))
        next  == rawUrlRegexIndex(after)
    IN  IF next = 0 THEN after ELSE SubSeq(after, 1, next - 1)

\* parts.join('/')
RECURSIVE join(_)
join(parts) ==
    IF parts = <<>> THEN <<>>
    ELSE IF Len(parts) = 1 THEN parts[1]
    ELSE parts[1] \o <<"/">> \o join(Tail(parts))

\* the parts array: GH_NAME, GH_REPO, GH_BRANCH, each when set
repoParts(e) ==
    (IF Truthy(e.GH_NAME) THEN <<e.GH_NAME>> ELSE <<>>)
    \o (IF Truthy(e.GH_REPO) THEN <<e.GH_REPO>> ELSE <<>>)
    \o (IF Truthy(e.GH_BRANCH) THEN <<e.GH_BRANCH>> ELSE <<>>)

\* s.replace(/([^:]\/)\/+/g, "$1"): from position i on, the next match is a
\* character other than ":" followed by two or more slashes; the character and
\* one slash are kept and the search goes on behind the run
RECURSIVE collapseFrom(_, _)
collapseFrom(s, i) ==
    LET matches == {j \in i..(Len(s) - 2) :
                       s[j] # ":" /\ s[j + 1] = "/" /\ s[j + 2] = "/"}
    IN  IF matches = {} THEN SubSeq(s, i, Len(s))
        ELSE LET j    == First(matches)
                 stop == First({k \in (j + 3)..(Len(s) + 1) :
                                   k = Len(s) + 1 \/ s[k] # "/"})
             IN  SubSeq(s, i, j + 1) \o collapseFrom(s, stop)

collapseSlashes(s) == collapseFrom(s, 1)

\* lines 27-50: githubRawUrl for a non-root pathname
buildGithubRawUrl(e, pathname) ==
    collapseSlashes(
        IF rawUrlRegexTest(pathname)
        THEN githubHost \o splitRawUrl1(pathname)
        ELSE githubHost
             \o (IF Len(repoParts(e)) > 0
                 THEN <<"/">> \o join(repoParts(e))
                 ELSE <<>>)
             \o pathname)

(***************************************************************************)
(* Responses.  A literal text of the source is one opaque item; texts that *)
(* come from the environment or the request are character sequences.       *)
(***************************************************************************)
\* line 75 and line 100: the body of the 400 response (token must be given)
TokenEmptyText == <<"token must not be empty">>
\* line 76: the body of the 403 response (wrong token)
TokenWrongText == <<"wrong token">>
\* line 77: the body of the 500 response (GH_TOKEN not configured)
ServerTokenText == <<"server GitHub token misconfigured">>
\* line 122: the default text for an upstream failure
DefaultErrorText == <<"cannot fetch the file, check the path or the token">>
\* line 126: the prefix of the 500 response for a fetch that threw
InternalErrorPrefix == <<"server internal error: ">>
\* line 21: nginxTemplate()
nginxTemplate == <<"Welcome to nginx!">>

\* new Response(body, { status, headers })
Response(body, status, headers) ==
    [status |-> status, headers |-> headers, body |-> body]

\* the headers of a Response constructed from a string without headers
TextHeaders == <<"text/plain;charset=UTF-8">>
\* line 22
HtmlHeaders == <<"text/html; charset=UTF-8">>

\* response.ok
ok(r) == r.status >= 200 /\ r.status <= 299

(***************************************************************************)
(* A. TOKEN_PATH (lines 59-84).                                            *)
(***************************************************************************)
\* pathPart.replace(/^\/+/, '')
RECURSIVE stripLeadingSlashes(_)
stripLeadingSlashes(s) ==
    IF s # <<>> /\ Head(s) = "/" THEN stripLeadingSlashes(Tail(s)) ELSE s

\* lines 67-69: the rule of an entry that has an "@" at splitIndex
requiredTokenOf(config) == trim(SubSeq(config, 1, indexOf(config, "@") - 1))

normalizedConfigPathOf(config) ==
    <<"/">> \o stripLeadingSlashes(
                 toLowerCase(trim(From(config, indexOf(config, "@") + 1))))

\* lines 72-73
pathMatches(normalizedPathname, normalizedConfigPath) ==
    \/ normalizedPathname = normalizedConfigPath
    \/ startsWith(normalizedPathname, normalizedConfigPath \o <<"/">>)

\* line 61
normalizePathname(pathname) == decodeURIComponent(toLowerCase(pathname))

\* ruleOutcome with the slip of forwarding the secret the user presented
\* instead of GH_TOKEN
ruleOutcomeForwardsSecret(e, userProvidedToken, requiredToken) ==
    IF ~Truthy(userProvidedToken)
    THEN [kind |-> "response",
          response |-> Response(TokenEmptyText, 400, TextHeaders)]
    ELSE IF userProvidedToken # requiredToken
    THEN [kind |-> "response",
          response |-> Response(TokenWrongText, 403, TextHeaders)]
    ELSE IF ~Truthy(e.GH_TOKEN)
    THEN [kind |-> "response",
          response |-> Response(ServerTokenText, 500, TextHeaders)]
    ELSE [kind |-> "done", finalToken |-> userProvidedToken]

\* lines 75-81: the outcome at the first matching rule
ruleOutcome(e, userProvidedToken, requiredToken) ==
    IF ~Truthy(userProvidedToken)
    THEN [kind |-> "response",
          response |-> Response(TokenEmptyText, 400, TextHeaders)]
    ELSE IF userProvidedToken # requiredToken
    THEN [kind |-> "response",
          response |-> Response(TokenWrongText, 403, TextHeaders)]
    ELSE IF ~Truthy(e.GH_TOKEN)
    THEN [kind |-> "response",
          response |-> Response(ServerTokenText, 500, TextHeaders)]
    ELSE [kind |-> "done", finalToken |-> e.GH_TOKEN]

\* ruleLoop with the slip of letting the last matching rule decide (no break)
RECURSIVE ruleLoopLastMatch(_, _, _, _)
ruleLoopLastMatch(e, pathConfigs, normalizedPathname, userProvidedToken) ==
    IF pathConfigs = <<>> THEN [kind |-> "none"]
    ELSE LET config == pathConfigs[Len(pathConfigs)]
             front  == SubSeq(pathConfigs, 1, Len(pathConfigs) - 1)
         IN  IF indexOf(config, "@") # 0
                /\ pathMatches(normalizedPathname, normalizedConfigPathOf(config))
             THEN ruleOutcome(e, userProvidedToken, requiredTokenOf(config))
             ELSE ruleLoopLastMatch(e, front, normalizedPathname,
                                    userProvidedToken)

\* lines 63-83: the loop over pathConfigs
RECURSIVE ruleLoop(_, _, _, _)
ruleLoop(e, pathConfigs, normalizedPathname, userProvidedToken) ==
    IF pathConfigs = <<>> THEN [kind |-> "none"]
    ELSE LET config == Head(pathConfigs)
         IN  IF indexOf(config, "@") = 0
             THEN ruleLoop(e, Tail(pathConfigs), normalizedPathname,
                           userProvidedToken)
             ELSE IF pathMatches(normalizedPathname,
                                 normalizedConfigPathOf(config))
             THEN ruleOutcome(e, userProvidedToken, requiredTokenOf(config))
             ELSE ruleLoop(e, Tail(pathConfigs), normalizedPathname,
                           userProvidedToken)

\* lines 59-84: "throw" (URIError), "response" (early return), "done"
\* (isAuthDone) or "none" (fall through to the default policy)
tokenPathAuth(e, pathname, userProvidedToken) ==
    IF ~Truthy(e.TOKEN_PATH) THEN [kind |-> "none"]
    ELSE IF normalizePathname(pathname) = URIError THEN [kind |-> "throw"]
    ELSE ruleLoop(e, parseEnvList(e.TOKEN_PATH), normalizePathname(pathname),
                  userProvidedToken)

(***************************************************************************)
(* B. The default policy (lines 87-102).                                   *)
(***************************************************************************)
\* defaultToken without the alias branch of line 93: the token given is used
defaultTokenNoAlias(e, userProvidedToken) ==
    Or(userProvidedToken, Or(e.GH_TOKEN, e.TOKEN))

\* defaultToken with the slip of preferring GH_TOKEN to the token given
defaultTokenServerFirst(e, userProvidedToken) ==
    IF Truthy(e.TOKEN) /\ userProvidedToken = e.TOKEN
    THEN Or(e.GH_TOKEN, e.TOKEN)
    ELSE Or(e.GH_TOKEN, Or(userProvidedToken, e.TOKEN))

\* lines 93-97
defaultToken(e, userProvidedToken) ==
    IF Truthy(e.TOKEN) /\ userProvidedToken = e.TOKEN
    THEN Or(e.GH_TOKEN, e.TOKEN)
    ELSE Or(userProvidedToken, Or(e.GH_TOKEN, e.TOKEN))

\* lines 87-102
defaultAuth(e, userProvidedToken) ==
    IF ~Truthy(defaultToken(e, userProvidedToken))
    THEN [kind |-> "response",
          response |-> Response(TokenEmptyText, 400, TextHeaders)]
    ELSE [kind |-> "done", finalToken |-> defaultToken(e, userProvidedToken)]

\* lines 52-102: credential resolution
resolveAuth(e, pathname, userProvidedToken) ==
    LET a == tokenPathAuth(e, pathname, userProvidedToken)
    IN  IF a.kind = "none" THEN defaultAuth(e, userProvidedToken) ELSE a

\* lines 105-107: `token ${finalToken}`
authorizationHeaders(finalToken) ==
    IF Truthy(finalToken)
    THEN << <<"Authorization", <<"t","o","k","e","n"," ">> \o finalToken>> >>
    ELSE <<>>

\* upstreamRequests with the fetch moved before the checks of the credential
upstreamRequestsEager(auth, url, method) ==
    << [url |-> url, method |-> method,
        headers |-> IF auth.kind = "done"
                    THEN authorizationHeaders(auth.finalToken)
                    ELSE <<>>] >>

\* lines 111-114: the upstream requests issued once resolution has ended
upstreamRequests(auth, url, method) ==
    IF auth.kind = "done"
    THEN << [url |-> url, method |-> method,
             headers |-> authorizationHeaders(auth.finalToken)] >>
    ELSE <<>>

(***************************************************************************)
(* 4. The upstream result (lines 116-127).                                 *)
(***************************************************************************)
\* line 122
errorText(e) == Or(e.ERROR, DefaultErrorText)

\* relay with the slip of passing every upstream response through
relayUpstreamBody(e, upstreamResponse) ==
    Response(upstreamResponse.body, upstreamResponse.status,
             upstreamResponse.headers)

\* lines 116-124
relay(e, upstreamResponse) ==
    IF ok(upstreamResponse)
    THEN Response(upstreamResponse.body, upstreamResponse.status,
                  upstreamResponse.headers)
    ELSE Response(errorText(e), upstreamResponse.status, TextHeaders)

\* line 126
internalError(message) == Response(InternalErrorPrefix \o message, 500, TextHeaders)

(***************************************************************************)
(* 1. The root path (lines 11-24).                                         *)
(***************************************************************************)
\* line 12
envKey(e) ==
    IF Truthy(e.URL302) THEN "URL302"
    ELSE IF Truthy(e.URL) THEN "URL"
    ELSE "null"

\* line 14: parseEnvList(env[envKey]); an entry stands for an absolute URL
poolURLs(e) ==
    IF envKey(e) = "URL302" THEN parseEnvList(e.URL302) ELSE parseEnvList(e.URL)

\* line 15: the values URLs[Math.floor(Math.random() * URLs.length)] can take
poolTargets(e) ==
    IF poolURLs(e) = <<>> THEN {Undefined}
    ELSE {poolURLs(e)[i] : i \in 1..Len(poolURLs(e))}

\* Response.redirect(targetURL, 302)
redirect(targetURL) ==
    Response(<<>>, 302, << <<"Location", targetURL>> >>)

(***************************************************************************)
(* The inputs: the configurations of the worker and the requests.          *)
(***************************************************************************)
\* the longest pathname, in segments
MaxSegments == 2

\* a mixed-case spelling of the host
githubHostMixed ==
    <<"H","T","T","P","S",":","/","/","R","a","w",".","G","i","t","H","u","b",
      "U","s","e","r","C","o","n","t","e","n","t",".","c","o","M">>

\* what may stand between two slashes of a pathname
Segments ==
    { <<>>, <<"a">>, <<"a","a">>, <<"A">>, <<"%","6","1">>, <<"%">>, <<":">>,
      githubHost, githubHostMixed }

\* the segments of the requests that exercise credential resolution
AuthSegments ==
    { <<>>, <<"a">>, <<"a","a">>, <<"A">>, <<"%","6","1">>, <<"%">>, githubHost }

RECURSIVE pathOf(_)
pathOf(segs) ==
    IF segs = <<>> THEN <<>> ELSE <<"/">> \o Head(segs) \o pathOf(Tail(segs))

\* url.pathname: "/" followed by segments separated by "/"
PathnamesOver(segments) ==
    UNION { {pathOf(segs) : segs \in [1..n -> segments]} : n \in 1..MaxSegments }

Pathnames == PathnamesOver(Segments)
AuthPathnames == PathnamesOver(AuthSegments)

\* url.searchParams.get('token')
Tokens == { Null, <<>>, <<"s">>, <<"t">>, <<"v">> }

Methods == { "GET" }

Requests == [pathname : Pathnames, token : Tokens, method : Methods]
AuthRequests == [pathname : AuthPathnames, token : Tokens, method : Methods]

NoRequest == [pathname |-> Undefined, token |-> Undefined, method |-> "none"]

\* TOKEN_PATH values: entries separated by a newline
\*   s@/a             one rule
\*   s@/a  t@A        two rules of the same scope, /a being A lower-cased
\*   t@/a/a  s@/a     a rule and a later rule that contains it
\*   s@/a  t@/a/a     a rule and a later rule under it
\*   a  s@/a/a        an entry without "@" and a rule
\*   @/a              a rule with an empty secret
\*   t@a/             a rule whose path has no leading slash and ends in one
TokenPaths ==
    { Undefined,
      <<"s","@","/","a">>,
      <<"s","@","/","a","\n","t","@","A">>,
      <<"t","@","/","a","/","a","\n","s","@","/","a">>,
      <<"s","@","/","a","\n","t","@","/","a","/","a">>,
      <<"a","\n","s","@","/","a","/","a">>,
      <<"@","/","a">>,
      <<"t","@","a","/">> }

BaseEnv ==
    [URL302 |-> Undefined, URL |-> Undefined,
     GH_NAME |-> <<"o">>, GH_REPO |-> <<"r">>, GH_BRANCH |-> <<"b">>,
     GH_TOKEN |-> <<"u">>, TOKEN |-> Undefined, TOKEN_PATH |-> Undefined,
     ERROR |-> Undefined]

\* configurations of the credentials
AuthEnvs ==
    { [BaseEnv EXCEPT !.TOKEN_PATH = tp, !.GH_TOKEN = gh, !.TOKEN = tk] :
        tp \in TokenPaths, gh \in {Undefined, <<"u">>},
        tk \in {Undefined, <<"v">>} }

\* configurations of the repository location
RepoEnvs ==
    { [BaseEnv EXCEPT !.GH_NAME = n, !.GH_REPO = r, !.GH_BRANCH = b,
                      !.TOKEN_PATH = <<"s","@","/","a">>] :
        n \in {Undefined, <<"o">>}, r \in {Undefined, <<"r">>},
        b \in {Undefined, <<"b">>} }

\* configurations of the error text
ErrorEnvs ==
    { [BaseEnv EXCEPT !.ERROR = er] :
        er \in {Undefined, <<>>, <<"n","o","p","e">>} }

\* configurations of the root path
HomeEnvs ==
    { [BaseEnv EXCEPT !.URL302 = <<"x"," ","y">>, !.URL = p] :
        p \in {Undefined, <<"p">>} }
    \cup { [BaseEnv EXCEPT !.URL302 = <<",">>],
           [BaseEnv EXCEPT !.URL = <<"p",",","q">>],
           [BaseEnv EXCEPT !.URL = <<"dquote","dquote">>] }

Envs == AuthEnvs \cup RepoEnvs \cup ErrorEnvs \cup HomeEnvs

\* what the upstream may answer (statuses a Response may be constructed with)
UpstreamResponses ==
    [status : {200, 204, 404}, headers : {<<"upstream headers">>},
     body : {<<"upstream body">>}]

\* e.message of a fetch that threw
FetchErrors == { <<"network error">> }

(***************************************************************************)
(* The state of one invocation of fetch(request, env).                     *)
(***************************************************************************)
VARIABLES
    env,            \* the configuration
    request,        \* the request being handled
    pc,             \* "idle", "awaitPool", "awaitUpstream", "returned", "threw"
    githubRawUrl,   \* line 27
    finalToken,     \* line 54
    isAuthDone,     \* line 55
    upstreamCalls,  \* the fetches of line 111 issued
    poolCalls,      \* the fetches of line 18 issued
    upstream,       \* line 111: the response the upstream fetch resolved to
    response        \* the Response the handler returned

vars == <<env, request, pc, githubRawUrl, finalToken, isAuthDone,
          upstreamCalls, poolCalls, upstream, response>>

NoResponse == [status |-> 0, headers |-> <<>>, body |-> <<>>]

Init ==
    /\ env \in Envs
    /\ request = NoRequest
    /\ pc = "idle"
    /\ githubRawUrl = Undefined
    /\ finalToken = <<>>
    /\ isAuthDone = FALSE
    /\ upstreamCalls = <<>>
    /\ poolCalls = <<>>
    /\ upstream = NoResponse
    /\ response = NoResponse

isRoot(req) == req.pathname = <<"/">>

\* the locals of lines 27-55 are not reached on the root path
RootLocals ==
    UNCHANGED <<githubRawUrl, finalToken, isAuthDone, upstreamCalls, upstream>>

\* lines 16-17: URL302 is set and the redirect is returned
HomeRedirect(req) ==
    /\ pc = "idle" /\ isRoot(req)
    /\ envKey(env) = "URL302"
    /\ \E targetURL \in poolTargets(env) :
        /\ targetURL # Undefined
        /\ response' = redirect(targetURL)
    /\ request' = req
    /\ pc' = "returned"
    /\ RootLocals
    /\ UNCHANGED <<env, poolCalls>>

\* line 18: URL is set and the request is fetched from the pool
HomeProxy(req) ==
    /\ pc = "idle" /\ isRoot(req)
    /\ envKey(env) = "URL"
    /\ \E targetURL \in poolTargets(env) :
        /\ targetURL # Undefined
        /\ poolCalls' = <<[url |-> targetURL, method |-> req.method]>>
    /\ request' = req
    /\ pc' = "awaitPool"
    /\ RootLocals
    /\ UNCHANGED <<env, response>>

\* lines 15-18: the list is empty, targetURL is undefined and both
\* Response.redirect(undefined, 302) and new Request(undefined, request)
\* throw TypeError (invalid URL), which nothing catches
HomePoolEmpty(req) ==
    /\ pc = "idle" /\ isRoot(req)
    /\ envKey(env) # "null"
    /\ Undefined \in poolTargets(env)
    /\ request' = req
    /\ pc' = "threw"
    /\ RootLocals
    /\ UNCHANGED <<env, poolCalls, response>>

\* lines 21-23
HomePage(req) ==
    /\ pc = "idle" /\ isRoot(req)
    /\ envKey(env) = "null"
    /\ request' = req
    /\ response' = Response(nginxTemplate, 200, HtmlHeaders)
    /\ pc' = "returned"
    /\ RootLocals
    /\ UNCHANGED <<env, poolCalls>>

\* line 18: the promise of the pool fetch is what the handler returns
PoolReply(r) ==
    /\ pc = "awaitPool"
    /\ response' = r
    /\ pc' = "returned"
    /\ UNCHANGED <<env, request, githubRawUrl, finalToken, isAuthDone,
                   upstreamCalls, poolCalls, upstream>>

\* line 18: the pool fetch rejects, outside any try
PoolThrows ==
    /\ pc = "awaitPool"
    /\ pc' = "threw"
    /\ UNCHANGED <<env, request, githubRawUrl, finalToken, isAuthDone,
                   upstreamCalls, poolCalls, upstream, response>>

\* lines 26-114 for a non-root request, up to the first return, throw or await
Proxy(req, kind) ==
    LET url    == buildGithubRawUrl(env, req.pathname)
        scoped == tokenPathAuth(env, req.pathname, req.token)
        auth   == resolveAuth(env, req.pathname, req.token)
    IN  /\ pc = "idle" /\ ~isRoot(req)
        /\ auth.kind = kind
        /\ request' = req
        /\ githubRawUrl' = url
        /\ finalToken' = IF kind = "done" THEN auth.finalToken
                         ELSE IF scoped.kind = "none"
                         THEN defaultToken(env, req.token)
                         ELSE <<>>
        /\ isAuthDone' = (scoped.kind = "done")
        /\ upstreamCalls' = upstreamRequests(auth, url, req.method)
        /\ response' = IF kind = "response" THEN auth.response ELSE NoResponse
        /\ pc' = CASE kind = "done" -> "awaitUpstream"
                   [] kind = "response" -> "returned"
                   [] kind = "throw" -> "threw"
        /\ UNCHANGED <<env, poolCalls, upstream>>

\* line 61: decodeURIComponent throws URIError, outside any try
DecodeThrows(req) == Proxy(req, "throw")

\* lines 75-77 and 100: credential resolution fails and a response is returned
AuthRejected(req) == Proxy(req, "response")

\* line 111: the credential is resolved and the upstream fetch is issued
UpstreamFetch(req) == Proxy(req, "done")

\* lines 116-124: the upstream answered
UpstreamReply(r) ==
    /\ pc = "awaitUpstream"
    /\ upstream' = r
    /\ response' = relay(env, r)
    /\ pc' = "returned"
    /\ UNCHANGED <<env, request, githubRawUrl, finalToken, isAuthDone,
                   upstreamCalls, poolCalls>>

\* lines 125-127: the upstream fetch threw
UpstreamThrows(message) ==
    /\ pc = "awaitUpstream"
    /\ response' = internalError(message)
    /\ pc' = "returned"
    /\ UNCHANGED <<env, request, githubRawUrl, finalToken, isAuthDone,
                   upstreamCalls, poolCalls, upstream>>

\* the steps of one invocation, the request being drawn from `requests`
Step(requests) ==
    \/ pc = "idle" /\ \E req \in requests : HomeRedirect(req)
    \/ pc = "idle" /\ \E req \in requests : HomeProxy(req)
    \/ pc = "idle" /\ \E req \in requests : HomePoolEmpty(req)
    \/ pc = "idle" /\ \E req \in requests : HomePage(req)
    \/ pc = "awaitPool" /\ \E r \in UpstreamResponses : PoolReply(r)
    \/ PoolThrows
    \/ pc = "idle" /\ \E req \in requests : DecodeThrows(req)
    \/ pc = "idle" /\ \E req \in requests : AuthRejected(req)
    \/ pc = "idle" /\ \E req \in requests : UpstreamFetch(req)
    \/ pc = "awaitUpstream" /\ \E r \in UpstreamResponses : UpstreamReply(r)
    \/ pc = "awaitUpstream" /\ \E message \in FetchErrors : UpstreamThrows(message)

\* every configuration, every request
Next == Step(Requests)

Spec == Init /\ [][Next]_vars

\* the configurations and requests that exercise credential resolution and the
\* relay of the upstream result
InitAuth == Init /\ env \in AuthEnvs \cup ErrorEnvs \cup HomeEnvs

NextAuth == Step(AuthRequests)

SpecAuth == InitAuth /\ [][NextAuth]_vars

(***************************************************************************)
(* Vocabulary of the properties.                                           *)
(***************************************************************************)
\* a non-root request has been taken up
proxied == pc # "idle" /\ ~isRoot(request)

\* the entries of TOKEN_PATH that have an "@": the scoped rules, in order
scopedRules(e) ==
    SelectSeq(parseEnvList(e.TOKEN_PATH), LAMBDA c : indexOf(c, "@") # 0)

\* the rule covers the path: the path is its scope path or lies under it
covers(rule, path) ==
    \/ path = normalizedConfigPathOf(rule)
    \/ startsWith(path, normalizedConfigPathOf(rule) \o <<"/">>)

\* position of the first rule covering the path, 0 when there is none
firstCovering(e, path) ==
    LET rules == scopedRules(e)
        hit(k) == covers(rules[k], path)
    IN  IF \E k \in 1..Len(rules) : hit(k)
        THEN CHOOSE k \in 1..Len(rules) : hit(k) /\ \A j \in 1..(k - 1) : ~hit(j)
        ELSE 0

\* the request's pathname lower-cased and percent-decoded
requestPath == decodeURIComponent(toLowerCase(request.pathname))

\* the texts of the three failures of credential resolution
AuthFailureTexts == {TokenEmptyText, TokenWrongText, ServerTokenText}

\* the handler returned this failure of credential resolution, and fetched nothing
rejectedWith(status, text) ==
    /\ pc = "returned"
    /\ response.status = status
    /\ response.body = text
    /\ upstreamCalls = <<>>

\* one upstream request was issued, to githubRawUrl, carrying this credential
fetchedWith(credential) ==
    upstreamCalls =
        << [url |-> githubRawUrl, method |-> request.method,
            headers |-> << <<"Authorization",
                             <<"t","o","k","e","n"," ">> \o credential>> >>] >>

\* the path of a target URL below the configured owner/repo/branch,
\* lower-cased and percent-decoded as the rules' paths are compared
targetPath(e, url) ==
    LET path   == From(url, Len(githubHost) + 1)
        prefix == IF repoParts(e) = <<>> THEN <<>>
                  ELSE <<"/">> \o join(repoParts(e))
    IN  decodeURIComponent(toLowerCase(
            IF startsWith(path, prefix) THEN From(path, Len(prefix) + 1)
            ELSE path))

(***************************************************************************)
(* C1.  A scoped rule grants access to its subtree only when its secret is *)
(* presented: with TOKEN_PATH and GH_TOKEN set, whenever the upstream is   *)
(* fetched with GH_TOKEN at a target whose path, below the configured      *)
(* owner/repo/branch, is a rule's scope path or lies under it, the token   *)
(* of the request is the secret of the first rule covering that path.      *)
(* The target's path is compared as the rules are: lower-cased, decoded.   *)
(***************************************************************************)
C1_ScopedSecretRequired ==
    (proxied /\ Truthy(env.TOKEN_PATH) /\ Truthy(env.GH_TOKEN)) =>
        \A i \in 1..Len(upstreamCalls) :
            LET path == targetPath(env, upstreamCalls[i].url)
                k    == firstCovering(env, path)
            IN  (/\ upstreamCalls[i].headers = authorizationHeaders(env.GH_TOKEN)
                 /\ path # URIError
                 /\ k # 0)
                => request.token = requiredTokenOf(scopedRules(env)[k])

(***************************************************************************)
(* C2.  Fail fast: when credential resolution fails (400, 403 or 500) the  *)
(* failure is returned and no upstream fetch has been issued; an upstream  *)
(* fetch is issued only once resolution has succeeded.                     *)
(***************************************************************************)
C2_FailFast ==
    proxied =>
        /\ (pc = "returned" /\ response.body \in AuthFailureTexts)
           => /\ upstreamCalls = <<>>
              /\ upstream = NoResponse
              /\ response.status \in {400, 403, 500}
        /\ upstreamCalls # <<>>
           => /\ Truthy(finalToken)
              /\ fetchedWith(finalToken)
              /\ response.body \notin AuthFailureTexts

C2_Witness ==
    /\ proxied /\ pc = "returned"
    /\ response.status = 403 /\ response.body = TokenWrongText
    /\ upstreamCalls = <<>>

(***************************************************************************)
(* C3.  The outcome a rule with this secret decides for the request: the   *)
(* right token resolves to GH_TOKEN (500 when GH_TOKEN is unset), another  *)
(* token is refused with 403, no token with 400.                           *)
(***************************************************************************)
scopedOutcome(secret) ==
    /\ (request.token = secret /\ Truthy(env.GH_TOKEN))
       => /\ pc \in {"awaitUpstream", "returned"}
          /\ fetchedWith(env.GH_TOKEN)
          /\ response.body \notin AuthFailureTexts
    /\ (request.token = secret /\ ~Truthy(env.GH_TOKEN))
       => rejectedWith(500, ServerTokenText)
    /\ (Truthy(request.token) /\ request.token # secret)
       => rejectedWith(403, TokenWrongText)
    /\ ~Truthy(request.token)
       => rejectedWith(400, TokenEmptyText)

\* C3 as stated: for EVERY scoped rule secret@path (with a secret) and every
\* request whose path is path or path/anything, the rule's own secret
\* resolves to GH_TOKEN, another token gives 403, no token 400, and the right
\* token without GH_TOKEN 500.
C3_EveryRuleDecides ==
    (proxied /\ requestPath # URIError) =>
        \A k \in 1..Len(scopedRules(env)) :
            (/\ covers(scopedRules(env)[k], requestPath)
             /\ Truthy(requiredTokenOf(scopedRules(env)[k])))
            => scopedOutcome(requiredTokenOf(scopedRules(env)[k]))

\* C3 amended: the same for the FIRST rule of TOKEN_PATH that covers the
\* request's path (lower-cased and percent-decoded), when that rule has a
\* non-empty secret: its secret resolves to GH_TOKEN, never to the secret
\* itself; another token gives 403, no token 400, and the right token without
\* GH_TOKEN 500.
C3_FirstRuleDecides ==
    (proxied /\ requestPath # URIError) =>
        LET k == firstCovering(env, requestPath)
        IN  (k # 0 /\ Truthy(requiredTokenOf(scopedRules(env)[k])))
            => scopedOutcome(requiredTokenOf(scopedRules(env)[k]))

C3_Witness ==
    /\ proxied /\ requestPath # URIError
    /\ firstCovering(env, requestPath) = 1
    /\ request.pathname = <<"/","A","/","a">>
    /\ request.token = <<"s">>
    /\ requiredTokenOf(scopedRules(env)[1]) = <<"s">>
    /\ fetchedWith(<<"u">>)
    /\ pc = "returned" /\ response.status = 200

(***************************************************************************)
(* C4.  First match wins in configuration order: when several rules cover  *)
(* the path the earliest decides (its secret is accepted, the secret of a  *)
(* later covering rule is refused with 403); entries without "@" never     *)
(* match; when no rule matches, resolution falls through to the default    *)
(* policy.                                                                 *)
(***************************************************************************)
C4_FirstMatchWins ==
    (proxied /\ Truthy(env.TOKEN_PATH) /\ requestPath # URIError) =>
        LET rules == scopedRules(env)
            k     == firstCovering(env, requestPath)
        IN  IF k = 0
            THEN /\ ~isAuthDone
                 /\ response.body \notin {TokenWrongText, ServerTokenText}
                 /\ pc = "returned" /\ upstream = NoResponse
                    /\ response.body = TokenEmptyText
                    => ~Truthy(request.token)
            ELSE /\ \A j \in (k + 1)..Len(rules) :
                        (/\ covers(rules[j], requestPath)
                         /\ request.token = requiredTokenOf(rules[j])
                         /\ Truthy(request.token)
                         /\ request.token # requiredTokenOf(rules[k]))
                        => rejectedWith(403, TokenWrongText)
                 /\ (request.token = requiredTokenOf(rules[k])
                     /\ Truthy(request.token))
                    => /\ response.body \notin {TokenEmptyText, TokenWrongText}
                       /\ Truthy(env.GH_TOKEN)
                          => (isAuthDone /\ finalToken = env.GH_TOKEN)

C4_Witness ==
    /\ proxied /\ requestPath # URIError
    /\ Len(scopedRules(env)) = 2
    /\ firstCovering(env, requestPath) = 1
    /\ covers(scopedRules(env)[2], requestPath)
    /\ request.token = requiredTokenOf(scopedRules(env)[2])
    /\ request.token # requiredTokenOf(scopedRules(env)[1])
    /\ rejectedWith(403, TokenWrongText)

(***************************************************************************)
(* C5.  With TOKEN = V and GH_TOKEN = U both configured and token=V given, *)
(* every upstream request of the call carries U, never V.                  *)
(***************************************************************************)
C5_AliasNeverForwarded ==
    (/\ pc # "idle"
     /\ Truthy(env.TOKEN) /\ Truthy(env.GH_TOKEN)
     /\ request.token = env.TOKEN) =>
        \A i \in 1..Len(upstreamCalls) :
            /\ upstreamCalls[i].headers =
                 << <<"Authorization", <<"t","o","k","e","n"," ">> \o env.GH_TOKEN>> >>
            /\ env.GH_TOKEN # env.TOKEN
               => upstreamCalls[i].headers #
                    << <<"Authorization", <<"t","o","k","e","n"," ">> \o env.TOKEN>> >>

C5_Witness ==
    /\ proxied
    /\ env.TOKEN = <<"v">> /\ env.GH_TOKEN = <<"u">>
    /\ request.token = <<"v">>
    /\ ~isAuthDone
    /\ fetchedWith(<<"u">>)

(***************************************************************************)
(* C6.  The default policy, when no scoped rule matches and the token is   *)
(* not the alias: the credential is the token given if present, else       *)
(* GH_TOKEN if present, else TOKEN if present; when none is non-empty the  *)
(* response is 400 and no credential is attached.                          *)
(***************************************************************************)
C6_DefaultPolicy ==
    (/\ proxied
     /\ \/ ~Truthy(env.TOKEN_PATH)
        \/ requestPath # URIError /\ firstCovering(env, requestPath) = 0
     /\ ~(Truthy(env.TOKEN) /\ request.token = env.TOKEN)) =>
        LET present == <<request.token, env.GH_TOKEN, env.TOKEN>>
        IN  IF \E i \in 1..3 : Truthy(present[i])
            THEN LET i == CHOOSE i \in 1..3 :
                             Truthy(present[i])
                             /\ \A j \in 1..(i - 1) : ~Truthy(present[j])
                 IN  /\ finalToken = present[i]
                     /\ fetchedWith(present[i])
                     /\ response.body \notin AuthFailureTexts
            ELSE rejectedWith(400, TokenEmptyText)

C6_Witness ==
    /\ proxied
    /\ Truthy(env.TOKEN_PATH) /\ requestPath # URIError
    /\ firstCovering(env, requestPath) = 0
    /\ request.token = <<"t">> /\ Truthy(env.GH_TOKEN) /\ Truthy(env.TOKEN)
    /\ fetchedWith(<<"t">>)

\* the other end of C6: nothing configured, nothing given
C6_WitnessNone ==
    /\ proxied
    /\ ~Truthy(env.GH_TOKEN) /\ ~Truthy(env.TOKEN) /\ ~Truthy(request.token)
    /\ rejectedWith(400, TokenEmptyText)

(***************************************************************************)
(* C7.  Every failure path produces an explicit response: the handler      *)
(* never ends by an uncaught exception.                                    *)
(***************************************************************************)
C7_NoUncaughtException == pc # "threw"

(***************************************************************************)
(* C8.  The target URL is insensitive to redundant slashes: a slash        *)
(* inserted next to a slash of the pathname leaves the target URL          *)
(* unchanged, and collapsing the slashes of a target URL again changes     *)
(* nothing.                                                                *)
(***************************************************************************)
\* the pathname with one more slash before the slash at position i
insertSlash(pathname, i) ==
    SubSeq(pathname, 1, i) \o <<"/">> \o From(pathname, i + 1)

C8_SlashInsensitive ==
    proxied =>
        /\ collapseSlashes(githubRawUrl) = githubRawUrl
        /\ \A i \in 1..Len(request.pathname) :
              request.pathname[i] = "/"
              => buildGithubRawUrl(env, insertSlash(request.pathname, i))
                   = githubRawUrl

(***************************************************************************)
(* C9.  When the pathname contains the marker (any case) the target URL is *)
(* the host followed by everything after the marker, GH_NAME, GH_REPO and  *)
(* GH_BRANCH being ignored; otherwise it is the host, the configured       *)
(* owner, repo and branch in that order, then the pathname.  (Both with    *)
(* the runs of slashes collapsed.)                                         *)
(***************************************************************************)
\* position of the first occurrence of the marker in s, in any case; 0 if none
markerAt(s) ==
    LET hit(i) ==
            /\ i + Len(githubHost) - 1 <= Len(s)
            /\ \A k \in 1..Len(githubHost) :
                  LowerChar(s[i + k - 1]) = githubHost[k]
        hits == {i \in 1..Len(s) : hit(i)}
    IN  IF hits = {} THEN 0 ELSE First(hits)

C9_TargetUrl ==
    proxied =>
        githubRawUrl =
            collapseSlashes(
                IF markerAt(request.pathname) # 0
                THEN githubHost
                     \o From(request.pathname,
                             markerAt(request.pathname) + Len(githubHost))
                ELSE githubHost
                     \o (IF Truthy(env.GH_NAME) THEN <<"/">> \o env.GH_NAME ELSE <<>>)
                     \o (IF Truthy(env.GH_REPO) THEN <<"/">> \o env.GH_REPO ELSE <<>>)
                     \o (IF Truthy(env.GH_BRANCH) THEN <<"/">> \o env.GH_BRANCH ELSE <<>>)
                     \o request.pathname)

(***************************************************************************)
(* C10.  The upstream result: a non-success status s is returned as status *)
(* s with the body ERROR if configured, else the default text, never the   *)
(* upstream body; a success is returned with the upstream's status,        *)
(* headers and body unchanged.                                             *)
(***************************************************************************)
C10_UpstreamMapping ==
    (proxied /\ upstream # NoResponse) =>
        /\ pc = "returned"
        /\ IF upstream.status \in 200..299
           THEN response = upstream
           ELSE /\ response.status = upstream.status
                /\ response.body =
                     (IF Truthy(env.ERROR) THEN env.ERROR ELSE DefaultErrorText)
                /\ response.body # upstream.body

C10_Witness ==
    /\ proxied /\ upstream # NoResponse
    /\ upstream.status = 404
    /\ env.ERROR = <<"n","o","p","e">>
    /\ response.status = 404 /\ response.body = <<"n","o","p","e">>

\* the other end of C10: a success is passed through
C10_WitnessSuccess ==
    /\ proxied /\ upstream # NoResponse
    /\ upstream.status = 204
    /\ response = upstream

====
